---- MODULE Spec2Model ----
(***************************************************************************)
(* Envaridator (src/src/index.ts): a registry of environment variables     *)
(* (Envar) and post-validation rules (Rule) with a collect-all validate(). *)
(*                                                                         *)
(* Strings are sequences of atoms.  An atom is one character ("A", " ",    *)
(* "\n"), or a fixed literal of the program or of a validator that is      *)
(* never taken apart (a report header, a validator message).  The empty    *)
(* string is << >>.                                                        *)
(***************************************************************************)
EXTENDS Integers, Sequences, FiniteSets, TLC

VARIABLES
  registeredVariables,  \* Envaridator.registeredVariables: own properties, in creation order
  postValidations,      \* Envaridator.postValidations: Rule[]
  env,                  \* process.env, on the names the model registers
  last,                 \* the last operation: what it was called with, did and produced
  history,              \* the names whose value access has thrown, and has returned, so far,
                        \* each name with the environment's value when it was registered,
                        \* and how the latest validate() calls ended
  tally                 \* the validate() calls so far and, per rule, its check's calls

vars == <<registeredVariables, postValidations, env, last, history, tally>>

----------------------------------------------------------------------------
(* Bounds *)

MaxVars == 2
MaxRules == 1
\* the rules of the specifications that leave the environment alone
MaxRulesWide == 2
\* the validate() calls of the specification that counts them
MaxValidates == 2

----------------------------------------------------------------------------
(* Strings *)

NL == "\n"
EmptyString == << >>

\* the value undefined (distinct from every string, the empty one included)
Undefined == <<"#undefined">>

Digits == {"0", "1", "2", "3", "4", "5", "6", "7", "8", "9"}

DigitValue(c) ==
  CASE c = "0" -> 0 [] c = "1" -> 1 [] c = "2" -> 2 [] c = "3" -> 3 [] c = "4" -> 4
    [] c = "5" -> 5 [] c = "6" -> 6 [] c = "7" -> 7 [] c = "8" -> 8 [] c = "9" -> 9

RECURSIVE ToNumber(_)
ToNumber(s) ==
  IF s = << >> THEN 0
  ELSE 10 * ToNumber(SubSeq(s, 1, Len(s) - 1)) + DigitValue(s[Len(s)])

\* Array.prototype.join
RECURSIVE Join(_, _)
Join(list, sep) ==
  IF list = << >> THEN EmptyString
  ELSE IF Len(list) = 1 THEN list[1]
  ELSE list[1] \o sep \o Join(Tail(list), sep)

\* the collation rank of a character: white space, punctuation, digits, letters
CollationRank(c) ==
  CASE c = " " -> 1 [] c = "-" -> 2 [] c = "*" -> 3 [] c = "#" -> 4
    [] c \in Digits -> 10 + DigitValue(c)
    [] c = "A" -> 20 [] c = "B" -> 21 [] c = "d" -> 23 [] c = "r" -> 37
    [] OTHER -> 99

\* String.prototype.localeCompare: negative, zero or positive
RECURSIVE LocaleCompare(_, _)
LocaleCompare(a, b) ==
  IF a = << >> THEN (IF b = << >> THEN 0 ELSE -1)
  ELSE IF b = << >> THEN 1
  ELSE IF CollationRank(a[1]) < CollationRank(b[1]) THEN -1
  ELSE IF CollationRank(a[1]) > CollationRank(b[1]) THEN 1
  ELSE LocaleCompare(Tail(a), Tail(b))

\* x put into a sorted list, after the elements that do not compare greater
RECURSIVE SortInsert(_, _)
SortInsert(sorted, x) ==
  IF sorted = << >> THEN <<x>>
  ELSE IF LocaleCompare(sorted[1], x) <= 0 THEN <<sorted[1]>> \o SortInsert(Tail(sorted), x)
  ELSE <<x>> \o sorted

\* Array.prototype.sort((a, b) => a.localeCompare(b)), which is stable
RECURSIVE Sort(_)
Sort(list) ==
  IF list = << >> THEN << >>
  ELSE SortInsert(Sort(SubSeq(list, 1, Len(list) - 1)), list[Len(list)])

\* Array.prototype.unshift
Unshift(list, s) == <<s>> \o list

----------------------------------------------------------------------------
(* Inputs *)

NameA == <<"A">>
NameB == <<"B">>
Name1 == <<"1">>
NameConstructor == <<"constructor">>

\* names passed to register, in no particular order
Names == {NameB, NameA, Name1, NameConstructor}

\* names whose environment entry changes; every other name stays unset, as the
\* README's V@R1ABL3
EnvNames == {NameA}

\* the README's process.env['SOME_VARIABLE'] = 'I exist!'
IExist == <<"I exist!">>
EnvValues == {Undefined, IExist}

MsgNull == <<"value is null or undefined">>
MsgRule == <<"rule violated">>

\* Validators are the caller's functions (value: string | undefined) => T.
\* "required" is the README's toi.required().and(toi.str.is());
\* "any" is value => value, which accepts everything, undefined included.
Validators == {"required", "any"}

\* what calling validator v with value does: it returns a value or throws
CallValidator(v, value) ==
  IF v = "required" /\ value = Undefined
  THEN [threw |-> TRUE, value |-> Undefined, message |-> MsgNull]
  ELSE [threw |-> FALSE, value |-> value, message |-> EmptyString]

\* register's (validator, description) arguments
Registrations ==
  { [validator |-> "required", description |-> <<"d">>],
    [validator |-> "any", description |-> EmptyString] }

\* registerPostValidation's description argument
RuleDescriptions == {EmptyString, <<"r">>}

\* what one call of a rule's check does: returns, or throws an error with a message
CheckOutcomes ==
  { [threw |-> FALSE, message |-> EmptyString],
    [threw |-> TRUE, message |-> EmptyString],
    [threw |-> TRUE, message |-> MsgRule] }

----------------------------------------------------------------------------
(* The object holding the registered variables *)

\* properties every object inherits from Object.prototype
ObjectPrototypeKeys ==
  { <<"constructor">>, <<"toString">>, <<"valueOf">>, <<"hasOwnProperty">>,
    <<"isPrototypeOf">>, <<"toLocaleString">>, <<"__proto__">> }

OwnNames(obj) == {obj[i].name : i \in DOMAIN obj}

OwnIndex(obj, name) == CHOOSE i \in DOMAIN obj : obj[i].name = name

\* obj[name] != null
HasNonNull(obj, name) == name \in OwnNames(obj) \/ name \in ObjectPrototypeKeys

\* a property key that is a canonical array index: decimal digits without a
\* leading zero (the limit of 2^32 - 2 is beyond the names used here)
IsArrayIndex(name) ==
  /\ Len(name) > 0
  /\ \A i \in DOMAIN name : name[i] \in Digits
  /\ (Len(name) > 1 => name[1] # "0")

RECURSIVE SortIndices(_)
SortIndices(names) ==
  IF names = {} THEN << >>
  ELSE LET least == CHOOSE n \in names : \A m \in names : ToNumber(n) <= ToNumber(m)
       IN <<least>> \o SortIndices(names \ {least})

RECURSIVE CreationOrder(_)
CreationOrder(obj) ==
  IF obj = << >> THEN << >>
  ELSE IF IsArrayIndex(obj[1].name) THEN CreationOrder(Tail(obj))
  ELSE <<obj[1].name>> \o CreationOrder(Tail(obj))

\* Object.keys(obj): array indices ascending, then the other keys in creation order
ObjectKeys(obj) ==
  SortIndices({n \in OwnNames(obj) : IsArrayIndex(n)}) \o CreationOrder(obj)

----------------------------------------------------------------------------
(* Envar *)

EmptyCache == [empty |-> TRUE]

\* new Envar(name, validator, description)
NewEnvar(name, validator, description) ==
  [name |-> name, validator |-> validator, description |-> description,
   cache |-> EmptyCache]

Event(kind, name, arg, threw, message) ==
  [kind |-> kind, name |-> name, arg |-> arg, threw |-> threw, message |-> message]

\* the validator call of Envar.validate, and the cache it leaves
Evaluate(envar, e) ==
  LET value == e[envar.name]
      r == CallValidator(envar.validator, value)
      events == << Event("env", envar.name, EmptyString, FALSE, EmptyString),
                   Event("validator", envar.name, value, r.threw, r.message) >>
  IN IF r.threw
     THEN [envar |-> envar, threw |-> TRUE, value |-> Undefined,
           message |-> r.message, events |-> events]
     ELSE [envar |-> [envar EXCEPT !.cache = [value |-> r.value]], threw |-> FALSE,
           value |-> r.value, message |-> EmptyString, events |-> events]

\* an Envar.validate that marks the cache as filled when the validator throws
EnvarValidateCachesFailure(envar, e) ==
  IF "empty" \in DOMAIN envar.cache
  THEN LET r == Evaluate(envar, e)
       IN IF r.threw THEN [r EXCEPT !.envar.cache = [value |-> Undefined]] ELSE r
  ELSE [envar |-> envar, threw |-> FALSE, value |-> envar.cache.value,
        message |-> EmptyString, events |-> << >>]

\* an Envar.validate that takes a cached undefined for an empty cache
EnvarValidateUndefinedIsEmpty(envar, e) ==
  IF "empty" \in DOMAIN envar.cache \/ envar.cache.value = Undefined
  THEN Evaluate(envar, e)
  ELSE [envar |-> envar, threw |-> FALSE, value |-> envar.cache.value,
        message |-> EmptyString, events |-> << >>]

\* an Envar.validate that keeps the validator's error and throws it again
EnvarValidateKeepsError(envar, e) ==
  IF "empty" \in DOMAIN envar.cache
  THEN LET r == Evaluate(envar, e)
       IN IF r.threw THEN [r EXCEPT !.envar.cache = [error |-> r.message]] ELSE r
  ELSE IF "error" \in DOMAIN envar.cache
  THEN [envar |-> envar, threw |-> TRUE, value |-> Undefined,
        message |-> envar.cache.error, events |-> << >>]
  ELSE [envar |-> envar, threw |-> FALSE, value |-> envar.cache.value,
        message |-> EmptyString, events |-> << >>]

\* an Envar.validate that calls the validator on every access
EnvarValidateUncached(envar, e) ==
  [Evaluate(envar, e) EXCEPT !.envar = envar]

\* Envar.validate (private): fill the cache on an empty cache, return cache.value
EnvarValidate(envar, e) ==
  IF "empty" \in DOMAIN envar.cache
  THEN Evaluate(envar, e)
  ELSE [envar |-> envar, threw |-> FALSE, value |-> envar.cache.value,
        message |-> EmptyString, events |-> << >>]

\* get Envar.value: validate(), an error rethrown as `${name} - ${message}`
EnvarValue(envar, e) ==
  LET r == EnvarValidate(envar, e)
      message == IF r.threw THEN envar.name \o <<" ", "-", " ">> \o r.message
                 ELSE EmptyString
  IN [r EXCEPT !.message = message,
               !.events = r.events \o
                  <<Event("value", envar.name, EmptyString, r.threw, message)>>]

----------------------------------------------------------------------------
(* Rule *)

NewRule(description) == [description |-> description]

\* a Rule.validate that puts the rule's description before the message
RuleValidatePrefixed(rule, outcome) ==
  [threw |-> outcome.threw,
   message |-> IF outcome.threw THEN rule.description \o <<" ", "-", " ">> \o outcome.message
               ELSE EmptyString]

\* Rule.validate: call the check; an error is rethrown as new Error(error.message)
RuleValidate(rule, outcome) ==
  [threw |-> outcome.threw,
   message |-> IF outcome.threw THEN outcome.message ELSE EmptyString]

----------------------------------------------------------------------------
(* Envaridator *)

VariablesHeader == <<"The following environment variables are invalid:", NL>>
RulesHeader == <<"The following validation rules are invalid:", NL>>

\* a variablesStatus that pushes the header instead of unshifting it
VariablesStatusHeaderLast(failedVariables) ==
  Join(Append(failedVariables, VariablesHeader), <<NL>>)

\* Envaridator.variablesStatus
VariablesStatus(failedVariables) ==
  Join(Unshift(failedVariables, VariablesHeader), <<NL>>)

\* Envaridator.rulesStatus
RulesStatus(failedRules) ==
  Join(Unshift(failedRules, RulesHeader), <<NL>>)

Result(op, arg, threw, text, events) ==
  [op |-> op, arg |-> arg, threw |-> threw, text |-> text, events |-> events]

Init ==
  /\ registeredVariables = << >>
  /\ postValidations = << >>
  /\ env = [n \in Names |-> Undefined]
  /\ last = Result("new", EmptyString, FALSE, EmptyString, << >>)
  /\ history = [threw |-> {}, returned |-> {}, registered |-> {},
                previous |-> "none", earlier |-> "none", failing |-> {}]
  /\ tally = [validates |-> 0, rules |-> << >>]

\* this.registeredVariables[name] = envar
Store(obj, name, envar) ==
  IF name \in OwnNames(obj) THEN [obj EXCEPT ![OwnIndex(obj, name)] = envar]
  ELSE Append(obj, envar)

\* a register that validates the variable at once, as its comment says
RegisterResultEager(obj, name, envar) ==
  IF HasNonNull(obj, name)
  THEN [threw |-> TRUE, obj |-> obj,
        text |-> <<"Variable ">> \o name \o <<" already defined!">>]
  ELSE [threw |-> FALSE, obj |-> Store(obj, name, EnvarValidate(envar, env).envar),
        text |-> EmptyString]

\* a register that assigns before it checks
RegisterResultStoreFirst(obj, name, envar) ==
  [threw |-> HasNonNull(obj, name), obj |-> Store(obj, name, envar),
   text |-> IF HasNonNull(obj, name)
            THEN <<"Variable ">> \o name \o <<" already defined!">> ELSE EmptyString]

\* the body of register: the check that throws, then the assignment
RegisterResult(obj, name, envar) ==
  IF HasNonNull(obj, name)
  THEN [threw |-> TRUE, obj |-> obj,
        text |-> <<"Variable ">> \o name \o <<" already defined!">>]
  ELSE [threw |-> FALSE, obj |-> Store(obj, name, envar), text |-> EmptyString]

\* Envaridator.register
Register(name, reg) ==
  LET r == RegisterResult(registeredVariables, name,
                          NewEnvar(name, reg.validator, reg.description))
  IN /\ Len(r.obj) <= MaxVars
     /\ registeredVariables' = r.obj
     /\ last' = Result("register", name, r.threw, r.text, << >>)
     /\ UNCHANGED <<postValidations, env>>

\* the body of registerPostValidation: the rule pushed
PushRule(description) ==
  /\ postValidations' = Append(postValidations, NewRule(description))
  /\ last' = Result("registerPostValidation", description, FALSE, EmptyString, << >>)
  /\ UNCHANGED <<registeredVariables, env>>

\* Envaridator.registerPostValidation
RegisterPostValidation(description) ==
  /\ Len(postValidations) < MaxRules
  /\ PushRule(description)

\* a validate() that stops at the first failing variable
RECURSIVE ValidateVariablesFailFast(_, _, _)
ValidateVariablesFailFast(keys, obj, e) ==
  IF keys = << >> THEN [obj |-> obj, failedVariables |-> << >>, events |-> << >>]
  ELSE LET i == OwnIndex(obj, Head(keys))
           r == EnvarValue(obj[i], e)
       IN IF r.threw
          THEN [obj |-> obj, failedVariables |-> <<r.message>>, events |-> r.events]
          ELSE LET rest == ValidateVariablesFailFast(Tail(keys),
                                                     [obj EXCEPT ![i] = r.envar], e)
               IN [obj |-> rest.obj, failedVariables |-> rest.failedVariables,
                   events |-> r.events \o rest.events]

\* validate(): the forEach over Object.keys(this.registeredVariables)
RECURSIVE ValidateVariables(_, _, _)
ValidateVariables(keys, obj, e) ==
  IF keys = << >> THEN [obj |-> obj, failedVariables |-> << >>, events |-> << >>]
  ELSE LET i == OwnIndex(obj, Head(keys))
           r == EnvarValue(obj[i], e)
           rest == ValidateVariables(Tail(keys), [obj EXCEPT ![i] = r.envar], e)
       IN [obj |-> rest.obj,
           failedVariables |->
             (IF r.threw THEN <<r.message>> ELSE << >>) \o rest.failedVariables,
           events |-> r.events \o rest.events]

\* a validate() that stops at the first failing rule
RECURSIVE ValidateRulesFailFast(_, _, _)
ValidateRulesFailFast(rules, outcomes, i) ==
  IF i > Len(rules) THEN [failedRules |-> << >>, events |-> << >>]
  ELSE LET r == RuleValidate(rules[i], outcomes[i])
           event == Event("check", <<i>>, EmptyString, outcomes[i].threw,
                          outcomes[i].message)
       IN IF r.threw THEN [failedRules |-> <<r.message>>, events |-> <<event>>]
          ELSE LET rest == ValidateRulesFailFast(rules, outcomes, i + 1)
               IN [failedRules |-> rest.failedRules, events |-> <<event>> \o rest.events]

\* validate(): the forEach over this.postValidations, from rule i on
RECURSIVE ValidateRules(_, _, _)
ValidateRules(rules, outcomes, i) ==
  IF i > Len(rules) THEN [failedRules |-> << >>, events |-> << >>]
  ELSE LET r == RuleValidate(rules[i], outcomes[i])
           rest == ValidateRules(rules, outcomes, i + 1)
       IN [failedRules |-> (IF r.threw THEN <<r.message>> ELSE << >>) \o rest.failedRules,
           events |-> <<Event("check", <<i>>, EmptyString, outcomes[i].threw,
                              outcomes[i].message)>>
                        \o rest.events]

\* a validate() that joins the messages without the headers
BuildResultNoHeaders(failedVariables, failedRules) ==
  Join(failedVariables \o failedRules, <<NL>>)

\* validate(): the report text built from the two lists
BuildResult(failedVariables, failedRules) ==
  LET result1 == IF Len(failedVariables) > 0 THEN VariablesStatus(failedVariables)
                 ELSE EmptyString
  IN IF Len(failedRules) > 0 THEN result1 \o <<NL, NL>> \o RulesStatus(failedRules)
     ELSE result1

\* a validate() that runs the rules only when every variable passed
ValidateSkipsRulesOnFailure ==
  LET v == ValidateVariables(ObjectKeys(registeredVariables), registeredVariables, env)
  IN \E outcomes \in [DOMAIN postValidations -> CheckOutcomes] :
       LET r == IF Len(v.failedVariables) > 0
                THEN [failedRules |-> << >>, events |-> << >>]
                ELSE ValidateRules(postValidations, outcomes, 1)
           result == BuildResult(v.failedVariables, r.failedRules)
       IN /\ registeredVariables' = v.obj
          /\ last' = Result("validate", EmptyString, result # EmptyString, result,
                            v.events \o r.events)
          /\ UNCHANGED <<postValidations, env>>

\* a validate() that empties the caches it filled when it throws
ValidateRollsBack ==
  LET v == ValidateVariables(ObjectKeys(registeredVariables), registeredVariables, env)
  IN \E outcomes \in [DOMAIN postValidations -> CheckOutcomes] :
       LET r == ValidateRules(postValidations, outcomes, 1)
           result == BuildResult(v.failedVariables, r.failedRules)
       IN /\ registeredVariables' = IF result # EmptyString THEN registeredVariables
                                    ELSE v.obj
          /\ last' = Result("validate", EmptyString, result # EmptyString, result,
                            v.events \o r.events)
          /\ UNCHANGED <<postValidations, env>>

\* Envaridator.validate; outcomes[i] is what rule i's check does in this call
Validate ==
  LET v == ValidateVariables(ObjectKeys(registeredVariables), registeredVariables, env)
  IN \E outcomes \in [DOMAIN postValidations -> CheckOutcomes] :
       LET r == ValidateRules(postValidations, outcomes, 1)
           result == BuildResult(v.failedVariables, r.failedRules)
       IN /\ registeredVariables' = v.obj
          /\ last' = Result("validate", EmptyString, result # EmptyString, result,
                            v.events \o r.events)
          /\ UNCHANGED <<postValidations, env>>

\* the caller reads .value of the Envar that register returned for the i-th registration
GetValue(i) ==
  LET r == EnvarValue(registeredVariables[i], env)
  IN /\ registeredVariables' = [registeredVariables EXCEPT ![i] = r.envar]
     /\ last' = Result("value", registeredVariables[i].name, r.threw,
                       IF r.threw THEN r.message ELSE r.value, r.events)
     /\ UNCHANGED <<postValidations, env>>

\* Object.keys(this.registeredVariables).map(name => `${prefix}${name}${suffix}${description}`)
RECURSIVE EnvarLines(_, _, _, _)
EnvarLines(keys, obj, prefix, suffix) ==
  IF keys = << >> THEN << >>
  ELSE <<prefix \o Head(keys) \o suffix \o obj[OwnIndex(obj, Head(keys))].description>>
         \o EnvarLines(Tail(keys), obj, prefix, suffix)

\* this.postValidations.map(rule => rule.description)
RuleLines(rules) == [i \in DOMAIN rules |-> rules[i].description]

\* a describeAll that sorts the variables' and the rules' lines together
DescribeAllTextSortedTogether(obj, rules) ==
  Join(Sort(EnvarLines(ObjectKeys(obj), obj, EmptyString, <<" ", "-", " ">>)
              \o RuleLines(rules)), <<NL>>)

\* Envaridator.describeAll
DescribeAllText(obj, rules) ==
  LET envars == Sort(EnvarLines(ObjectKeys(obj), obj, EmptyString, <<" ", "-", " ">>))
      ruleLines == Sort(RuleLines(rules))
  IN Join(envars \o ruleLines, <<NL>>)

\* a describeAll that evaluates the variables it lists
DescribeAllEvaluates ==
  LET v == ValidateVariables(ObjectKeys(registeredVariables), registeredVariables, env)
  IN /\ registeredVariables' = v.obj
     /\ last' = Result("describeAll", EmptyString, FALSE,
                       DescribeAllText(registeredVariables, postValidations), << >>)
     /\ UNCHANGED <<postValidations, env>>

\* Envaridator.describeAll as the caller's call
DescribeAll ==
  /\ last' = Result("describeAll", EmptyString, FALSE,
                    DescribeAllText(registeredVariables, postValidations), << >>)
  /\ UNCHANGED <<registeredVariables, postValidations, env>>

VariablesHeading == <<"#Variables">>
RulesHeading == <<"#Post validation rules">>

\* Envaridator.describeAllMarkdown
DescribeAllMarkdownText(obj, rules) ==
  LET envars == Join(Sort(EnvarLines(ObjectKeys(obj), obj, <<"*", "*">>,
                                     <<"*", "*", " ", "-", " ">>)), <<NL>>)
      ruleLines == Join(Sort(RuleLines(rules)), <<NL>>)
      result1 == IF Len(envars) > 0 THEN <<VariablesHeading, envars>> ELSE << >>
      result == IF Len(ruleLines) > 0 THEN result1 \o <<RulesHeading, ruleLines>>
                ELSE result1
  IN Join(result, <<NL>>)

DescribeAllMarkdown ==
  /\ last' = Result("describeAllMarkdown", EmptyString, FALSE,
                    DescribeAllMarkdownText(registeredVariables, postValidations), << >>)
  /\ UNCHANGED <<registeredVariables, postValidations, env>>

\* the environment changes between calls (an entry set, or deleted)
SetEnv(name, value) ==
  /\ env[name] # value
  /\ env' = [env EXCEPT ![name] = value]
  /\ last' = Result("setenv", name, FALSE, EmptyString, << >>)
  /\ UNCHANGED <<registeredVariables, postValidations>>

Next ==
  \/ \E name \in Names, reg \in Registrations : Register(name, reg) /\ UNCHANGED <<history, tally>>
  \/ \E description \in RuleDescriptions :
       RegisterPostValidation(description) /\ UNCHANGED <<history, tally>>
  \/ Validate /\ UNCHANGED <<history, tally>>
  \/ \E i \in DOMAIN registeredVariables : GetValue(i) /\ UNCHANGED <<history, tally>>
  \/ DescribeAll /\ UNCHANGED <<history, tally>>
  \/ DescribeAllMarkdown /\ UNCHANGED <<history, tally>>
  \/ \E name \in EnvNames, value \in EnvValues : SetEnv(name, value) /\ UNCHANGED <<history, tally>>

Spec == Init /\ [][Next]_vars

----------------------------------------------------------------------------
(* The bindings alone, with the record of which names' accesses have thrown  *)
(* and returned                                                              *)

ValueEvents(events) == SelectSeq(events, LAMBDA ev : ev.kind = "value")

Record(h, events) ==
  LET accesses == ValueEvents(events)
  IN [h EXCEPT
        !.threw = @ \cup {accesses[k].name : k \in {j \in DOMAIN accesses : accesses[j].threw}},
        !.returned = @ \cup
                       {accesses[k].name : k \in {j \in DOMAIN accesses : ~accesses[j].threw}}]

\* a register call that returned, remembered with the environment's value for the name
Remember(h, result, e) ==
  IF result.op = "register" /\ ~result.threw
  THEN [h EXCEPT !.registered = @ \cup {<<result.arg, e[result.arg]>>}]
  ELSE h

Recorded ==
  /\ history' = Remember(Record(history, last'.events), last', env)
  /\ UNCHANGED tally

NextHistory ==
  \/ \E name \in Names, reg \in Registrations : Register(name, reg) /\ Recorded
  \/ Validate /\ Recorded
  \/ \E i \in DOMAIN registeredVariables : GetValue(i) /\ Recorded
  \/ \E name \in EnvNames, value \in EnvValues : SetEnv(name, value) /\ Recorded

SpecHistory == Init /\ [][NextHistory]_vars

----------------------------------------------------------------------------
(* Two names and the rules in a changing environment, with the record of    *)
(* how the latest validate() calls ended                                     *)

\* after validate(): how it ended, how the one before it ended, and the names
\* whose access threw in it; a registration starts the record again
Previous(h, result) ==
  IF result.op = "validate"
  THEN LET accesses == ValueEvents(result.events)
       IN [h EXCEPT !.previous = IF result.threw THEN "threw" ELSE "returned",
                    !.earlier = h.previous,
                    !.failing = {accesses[k].name :
                                   k \in {j \in DOMAIN accesses : accesses[j].threw}}]
  ELSE IF result.op \in {"register", "registerPostValidation"} /\ ~result.threw
  THEN [h EXCEPT !.previous = "none", !.earlier = "none", !.failing = {}]
  ELSE h

Rerun ==
  /\ history' = Previous(Record(history, last'.events), last')
  /\ UNCHANGED tally

NextRerun ==
  \/ \E name \in {NameA, NameB}, reg \in Registrations : Register(name, reg) /\ Rerun
  \/ \E description \in RuleDescriptions : RegisterPostValidation(description) /\ Rerun
  \/ Validate /\ Rerun
  \/ \E i \in DOMAIN registeredVariables : GetValue(i) /\ Rerun
  \/ \E name \in EnvNames, value \in EnvValues : SetEnv(name, value) /\ Rerun

SpecRerun == Init /\ [][NextRerun]_vars

----------------------------------------------------------------------------
(* Registration and description alone, with more rules *)

NextDescribe ==
  \/ \E name \in Names, reg \in Registrations : Register(name, reg) /\ UNCHANGED <<history, tally>>
  \/ \E description \in RuleDescriptions :
       /\ Len(postValidations) < MaxRulesWide
       /\ PushRule(description)
       /\ UNCHANGED <<history, tally>>
  \/ DescribeAll /\ UNCHANGED <<history, tally>>
  \/ DescribeAllMarkdown /\ UNCHANGED <<history, tally>>

SpecDescribe == Init /\ [][NextDescribe]_vars

----------------------------------------------------------------------------
(* Registration and validation of two names in an unchanging environment,   *)
(* with more rules                                                           *)

NextRules ==
  \/ \E name \in {NameA, Name1}, reg \in Registrations :
       Register(name, reg) /\ UNCHANGED <<history, tally>>
  \/ \E description \in RuleDescriptions :
       /\ Len(postValidations) < MaxRulesWide
       /\ PushRule(description)
       /\ UNCHANGED <<history, tally>>
  \/ Validate /\ UNCHANGED <<history, tally>>

SpecRules == Init /\ [][NextRules]_vars

----------------------------------------------------------------------------
(* The rules of a registry of at most one variable, with the count of the   *)
(* validate() calls and of the calls of each rule's check                    *)

CheckEvents(events) == SelectSeq(events, LAMBDA ev : ev.kind = "check")

\* the count after an operation that made the calls of events
Count(t, op, events) ==
  LET checks == CheckEvents(events)
      calls(i, threw) ==
        Cardinality({k \in DOMAIN checks : checks[k].name = <<i>> /\ checks[k].threw = threw})
      counted == [i \in DOMAIN t.rules |->
                    [t.rules[i] EXCEPT !.passed = @ + calls(i, FALSE),
                                       !.threw = @ + calls(i, TRUE)]]
  IN [validates |-> t.validates + (IF op = "validate" THEN 1 ELSE 0),
      rules |-> IF op = "registerPostValidation"
                THEN Append(counted, [since |-> t.validates, passed |-> 0, threw |-> 0])
                ELSE counted]

Counted == tally' = Count(tally, last'.op, last'.events) /\ UNCHANGED history

NextTally ==
  \/ \E reg \in Registrations : Register(Name1, reg) /\ Counted
  \/ \E description \in RuleDescriptions :
       /\ Len(postValidations) < MaxRulesWide
       /\ PushRule(description)
       /\ Counted
  \/ /\ tally.validates < MaxValidates
     /\ Validate
     /\ Counted

SpecTally == Init /\ [][NextTally]_vars

----------------------------------------------------------------------------
(* Reading a report *)

RECURSIVE Split(_)
Split(s) ==
  IF \A k \in DOMAIN s : s[k] # NL THEN <<s>>
  ELSE LET i == CHOOSE k \in DOMAIN s : s[k] = NL /\ \A j \in 1..(k - 1) : s[j] # NL
       IN <<SubSeq(s, 1, i - 1)>> \o Split(SubSeq(s, i + 1, Len(s)))

StartsWith(s, prefix) ==
  Len(s) >= Len(prefix) /\ SubSeq(s, 1, Len(prefix)) = prefix

NamePrefix(name) == name \o <<" ", "-", " ">>

ReportLines == Split(last.text)

VariablesHeaderLine == <<VariablesHeader[1]>>
RulesHeaderLine == <<RulesHeader[1]>>

\* the lines that follow the rules' header and the empty line after it
RuleSection(lines) ==
  IF \E k \in DOMAIN lines : lines[k] = RulesHeaderLine
  THEN SubSeq(lines, (CHOOSE k \in DOMAIN lines : lines[k] = RulesHeaderLine) + 2, Len(lines))
  ELSE << >>

\* the lines that begin with a variable's name and " - "
VariableLines(lines) ==
  SelectSeq(lines, LAMBDA line : \E name \in Names : StartsWith(line, NamePrefix(name)))

EventsOf(kind) == SelectSeq(last.events, LAMBDA ev : ev.kind = kind)

Failing(events) == SelectSeq(events, LAMBDA ev : ev.threw)

Occurrences(seq, x) == Cardinality({k \in DOMAIN seq : seq[k] = x})

----------------------------------------------------------------------------
(* Claims *)

C2_ThrowsIffAnyFailed ==
  last.op = "validate" =>
    LET failures == Failing(EventsOf("value")) \o Failing(EventsOf("check"))
    IN /\ last.threw <=> failures # << >>
       /\ ~last.threw => last.text = EmptyString
       /\ last.threw =>
            /\ \A k \in DOMAIN failures : last.text # failures[k].message
            /\ \/ StartsWith(last.text, VariablesHeader)
               \/ StartsWith(last.text, <<NL, NL>> \o RulesHeader)
       /\ (registeredVariables = << >> /\ postValidations = << >>) => ~last.threw

\* a validate() that threw although every binding passed: the one failure is a
\* rule whose error has an empty message
C2_Witness ==
  /\ last.op = "validate"
  /\ last.threw
  /\ registeredVariables # << >>
  /\ Failing(EventsOf("value")) = << >>
  /\ \E k \in DOMAIN EventsOf("check") :
       EventsOf("check")[k].threw /\ EventsOf("check")[k].message = EmptyString

\* C3: register(name, ...) throws exactly when a binding with that name was
\* registered on the registry before the call.
C3_FailsExactlyOnDuplicate ==
  [][last'.op = "register" =>
       (last'.threw <=> last'.arg \in OwnNames(registeredVariables))]_vars

\* C4: a register call that throws leaves the bindings and the rules as they
\* were; a register call that returns leaves every binding stored before and
\* the rules as they were; and no two stored bindings ever share a name.
C4_FailedRegisterChangesNothing ==
  [][/\ (last'.op = "register" /\ last'.threw) =>
          /\ registeredVariables' = registeredVariables
          /\ postValidations' = postValidations
     /\ (last'.op = "register" /\ ~last'.threw) =>
          /\ Len(registeredVariables') = Len(registeredVariables) + 1
          /\ \A i \in DOMAIN registeredVariables :
               registeredVariables'[i] = registeredVariables[i]
          /\ postValidations' = postValidations
     /\ \A i, j \in DOMAIN registeredVariables' :
          i # j => registeredVariables'[i].name # registeredVariables'[j].name]_vars

\* a register call has thrown on the name of a stored binding whose value is cached
C4_Witness ==
  /\ last.op = "register"
  /\ last.threw
  /\ \E i \in DOMAIN registeredVariables :
       /\ registeredVariables[i].name = last.arg
       /\ "value" \in DOMAIN registeredVariables[i].cache
  /\ Len(registeredVariables) >= 2

\* C5: once a binding's value is cached, no step changes the binding; an access
\* of it, direct or through validate(), neither reads the environment nor calls
\* the validator and returns the cached value, whatever the environment holds
\* now; and the value an access returns is the value the cache then holds.
C5_SuccessIsMemoized ==
  [][/\ \A i \in DOMAIN registeredVariables :
          LET b == registeredVariables[i]
          IN "value" \in DOMAIN b.cache =>
               /\ registeredVariables'[i] = b
               /\ \A k \in DOMAIN last'.events :
                    LET ev == last'.events[k]
                    IN (ev.kind # "check" /\ ev.name = b.name) =>
                         (ev.kind = "value" /\ ~ev.threw)
               /\ (last'.op = "value" /\ last'.arg = b.name) =>
                    (~last'.threw /\ last'.text = b.cache.value)
     /\ (last'.op = "value" /\ ~last'.threw) =>
          registeredVariables'[OwnIndex(registeredVariables', last'.arg)].cache
            = [value |-> last'.text]]_vars

\* a direct access has returned a cached undefined without calling the validator,
\* while the environment holds a value for the name
C5_Witness ==
  /\ last.op = "value"
  /\ last.arg = NameA
  /\ ~last.threw
  /\ last.text = Undefined
  /\ env[NameA] = IExist
  /\ EventsOf("validator") = << >>

\* C6: while no access of a binding has ever returned, every access of it,
\* direct or through validate(), reads the environment and calls the validator
\* with the value the environment holds at that moment, and returns exactly
\* when the validator accepts that value.
C6_FailureIsNotMemoized ==
  [][\A i \in DOMAIN registeredVariables :
       LET b == registeredVariables[i]
           of(kind) == {k \in DOMAIN last'.events :
                          last'.events[k].kind = kind /\ last'.events[k].name = b.name}
       IN (b.name \notin history.returned /\ of("value") # {}) =>
            /\ of("env") # {}
            /\ \E k \in of("validator") : last'.events[k].arg = env[b.name]
            /\ \A k \in of("value") :
                 last'.events[k].threw = CallValidator(b.validator, env[b.name]).threw]_vars

\* a direct access of a binding has called the validator and returned, after an
\* earlier access of the same binding threw
C6_Witness ==
  /\ last.op = "value"
  /\ ~last.threw
  /\ last.arg \in history.threw
  /\ \E k \in DOMAIN last.events :
       last.events[k].kind = "validator" /\ last.events[k].arg = IExist

\* where a report line's binding stands in the order of registration
RegistrationIndex(line) ==
  CHOOSE i \in DOMAIN registeredVariables :
    StartsWith(line, NamePrefix(registeredVariables[i].name))

\* C7: in the report validate() throws, the failing bindings' lines stand in the
\* order in which the bindings were registered.
C7_ReportInRegistrationOrder ==
  (last.op = "validate" /\ last.threw) =>
    LET lines == VariableLines(ReportLines)
    IN \A p, q \in DOMAIN lines :
         p < q => RegistrationIndex(lines[p]) < RegistrationIndex(lines[q])

RECURSIVE PrefixEach(_, _)
PrefixEach(prefix, lines) ==
  IF lines = << >> THEN << >>
  ELSE prefix \o Head(lines) \o PrefixEach(prefix, Tail(lines))

\* the validator calls that threw, as '<name> - <validator message>'
FailedValidatorLines ==
  LET calls == Failing(EventsOf("validator"))
  IN [k \in DOMAIN calls |-> calls[k].name \o <<" ", "-", " ">> \o calls[k].message]

\* the messages of the checks that threw
FailedCheckMessages ==
  LET checks == Failing(EventsOf("check"))
  IN [k \in DOMAIN checks |-> checks[k].message]

\* C8: the report is, if a binding failed, the variables' header followed by
\* each failing binding's line '<name> - <validator message>' after a newline,
\* and then, if a rule failed, two newlines, the rules' header and each failing
\* rule's line after a newline.
C8_ReportText ==
  (last.op = "validate" /\ last.threw) =>
    last.text =
      (IF Len(FailedValidatorLines) > 0
       THEN <<"The following environment variables are invalid:", NL>>
              \o PrefixEach(<<NL>>, FailedValidatorLines)
       ELSE << >>)
      \o (IF Len(FailedCheckMessages) > 0
          THEN <<NL, NL, "The following validation rules are invalid:", NL>>
                 \o PrefixEach(<<NL>>, FailedCheckMessages)
          ELSE << >>)

\* a report with a passing binding, a failing binding and a failing rule
C8_Witness ==
  /\ last.op = "validate"
  /\ last.threw
  /\ Len(FailedValidatorLines) = 1
  /\ Len(EventsOf("value")) = 2
  /\ FailedCheckMessages = <<MsgRule>>

C10_HeadingsIffRegistered ==
  last.op = "describeAllMarkdown" =>
    /\ (\E k \in DOMAIN ReportLines : ReportLines[k] = VariablesHeading)
         <=> registeredVariables # << >>
    /\ (\E k \in DOMAIN ReportLines : ReportLines[k] = RulesHeading)
         <=> postValidations # << >>

\* the lines of a description of n items
DescribedLines(n) == IF n = 0 THEN << >> ELSE Split(last.text)

\* C11: describeAll() returns one line '<name> - <description>' for each
\* registered variable and one line '<description>' for each registered rule:
\* first the variables' lines, in collation order, then the rules' lines, in
\* collation order, and no heading line; so the text does not depend on the
\* order of registration.
C11_DescribeAllSorted ==
  last.op = "describeAll" =>
    LET nv == Len(registeredVariables)
        nr == Len(postValidations)
        lines == DescribedLines(nv + nr)
        ruleLine(k) == lines[nv + k]
    IN /\ (nv + nr = 0) => last.text = EmptyString
       /\ Len(lines) = nv + nr
       /\ {lines[k] : k \in 1..nv}
            = {NamePrefix(registeredVariables[i].name) \o registeredVariables[i].description :
                 i \in DOMAIN registeredVariables}
       /\ \A d \in RuleDescriptions :
            Cardinality({k \in 1..nr : ruleLine(k) = d})
              = Cardinality({i \in DOMAIN postValidations : postValidations[i].description = d})
       /\ \A p, q \in 1..nv : p < q => LocaleCompare(lines[p], lines[q]) < 0
       /\ \A p, q \in 1..nr : p < q => LocaleCompare(ruleLine(p), ruleLine(q)) <= 0
       /\ \A k \in DOMAIN lines : lines[k] \notin {VariablesHeading, RulesHeading}

\* describeAll() on variables registered B before A and rules registered "r"
\* before ""
C11_Witness ==
  /\ last.op = "describeAll"
  /\ Len(registeredVariables) = 2
  /\ registeredVariables[1].name = NameB
  /\ registeredVariables[2].name = NameA
  /\ Len(postValidations) = 2
  /\ postValidations[1].description = <<"r">>
  /\ postValidations[2].description = EmptyString

\* C12: in one validate() call every registered binding's value is accessed
\* before any rule's check is invoked, and then the check of every rule is
\* invoked, in the order of registration, whether or not a binding failed.
C12_TwoPhase ==
  last.op = "validate" =>
    LET nv == Len(registeredVariables)
        nr == Len(postValidations)
        accesses == {k \in DOMAIN last.events : last.events[k].kind = "value"}
        checks == {k \in DOMAIN last.events : last.events[k].kind = "check"}
    IN /\ Cardinality(accesses) = nv
       /\ \A k \in accesses, j \in checks : k < j
       /\ Len(EventsOf("check")) = nr
       /\ \A i \in 1..nr : EventsOf("check")[i].name = <<i>>

\* a validate() in which a binding failed and two rules' checks were invoked
C12_Witness ==
  /\ last.op = "validate"
  /\ Len(Failing(EventsOf("value"))) >= 1
  /\ Len(EventsOf("check")) = 2

\* C13: every validate() call invokes the check of every registered rule once:
\* a rule's check has been called once for each validate() call made since the
\* rule was registered, so k times after k calls for a rule registered before
\* the first.
C13_RulesNeverMemoized ==
  /\ Len(tally.rules) = Len(postValidations)
  /\ \A i \in DOMAIN tally.rules :
       LET rule == tally.rules[i]
       IN /\ rule.passed + rule.threw = tally.validates - rule.since
          /\ rule.since = 0 => rule.passed + rule.threw = tally.validates

\* after two validate() calls, a rule registered before the first has passed in
\* one and failed in the other
C13_Witness ==
  /\ tally.validates = 2
  /\ last.op = "validate"
  /\ \E i \in DOMAIN tally.rules :
       /\ tally.rules[i].since = 0
       /\ tally.rules[i].passed = 1
       /\ tally.rules[i].threw = 1

C15_ValidateCanBeRerun ==
  [][(/\ last'.op = "validate"
      /\ history.previous = "threw"
      /\ \A i \in DOMAIN registeredVariables :
           registeredVariables[i].name \in history.failing =>
             ~CallValidator(registeredVariables[i].validator,
                            env[registeredVariables[i].name]).threw
      /\ \A k \in DOMAIN last'.events :
           last'.events[k].kind = "check" => ~last'.events[k].threw)
     => ~last'.threw]_vars

\* a validate() has returned after one that threw: a validator that had thrown
\* accepted the value set since, and a rule's check was called and passed
C15_Witness ==
  /\ last.op = "validate"
  /\ ~last.threw
  /\ history.earlier = "threw"
  /\ \E k \in DOMAIN last.events :
       /\ last.events[k].kind = "validator"
       /\ last.events[k].name \in history.threw
       /\ last.events[k].arg = IExist
  /\ \E k \in DOMAIN last.events : last.events[k].kind = "check"

C17_NoRollback ==
  [][last'.op = "validate" =>
       LET validated == {last'.events[k].name :
                           k \in {j \in DOMAIN last'.events :
                                    last'.events[j].kind = "validator"}}
           returned == {last'.events[k].name :
                          k \in {j \in DOMAIN last'.events :
                                   last'.events[j].kind = "value" /\ ~last'.events[j].threw}}
           checked == {k \in DOMAIN last'.events : last'.events[k].kind = "check"}
       IN /\ Len(registeredVariables') = Len(registeredVariables)
          /\ \A i \in DOMAIN registeredVariables :
               /\ registeredVariables'[i].name = registeredVariables[i].name
               /\ registeredVariables[i].name \in returned =>
                    "empty" \notin DOMAIN registeredVariables'[i].cache
          /\ postValidations' = postValidations
          /\ history.previous = "threw" =>
               /\ validated = OwnNames(registeredVariables) \ history.returned
               /\ Cardinality(checked) = Len(postValidations)]_vars

\* the validate() after one that threw: one binding's value came from its cache,
\* the validator of another was called again, and a rule's check was called
C17_Witness ==
  /\ last.op = "validate"
  /\ history.earlier = "threw"
  /\ \E k, j \in DOMAIN last.events :
       /\ last.events[k].kind = "value"
       /\ ~\E v \in DOMAIN last.events :
            last.events[v].kind = "validator" /\ last.events[v].name = last.events[k].name
       /\ last.events[j].kind = "validator"
  /\ \E k \in DOMAIN last.events : last.events[k].kind = "check"

\* C18: on a registry with no rules, a validate() that follows a validate() that
\* returned normally, with no registration in between, returns normally, whatever
\* the environment holds by then.
C18_StaleSuccess ==
  [][(/\ last'.op = "validate"
      /\ history.previous = "returned"
      /\ postValidations = << >>)
     => ~last'.threw]_vars

\* a validate() has returned after one that returned, on a registry with no rules
\* and a variable whose validator rejects what the environment holds now
C18_Witness ==
  /\ last.op = "validate"
  /\ ~last.threw
  /\ history.earlier = "returned"
  /\ postValidations = << >>
  /\ \E i \in DOMAIN registeredVariables :
       CallValidator(registeredVariables[i].validator,
                     env[registeredVariables[i].name]).threw

====
